---- MODULE Spec2Model ----
(***************************************************************************)
(* ct_scan.py: detection of inflammation areas in a lung CT scan.          *)
(*                                                                         *)
(* Images are SimpleImage rasters.  A raster is kept here as a grid of     *)
(* uniform rectangles: xs lists the widths of its column bands, ys the     *)
(* heights of its row bands, and px gives the one pixel value shared by    *)
(* all pixels of a cell (column band, row band).  A raster whose bands all *)
(* have width 1 is an ordinary pixel array.  The 400x300 working frame is  *)
(* cut at every column and row on which a window border can fall, so each  *)
(* loop of the program over pixels is a loop over cells with the same      *)
(* effect on every pixel of a cell.                                        *)
(***************************************************************************)
EXTENDS Integers, Sequences, FiniteSets, TLC

INTENSITY_MIN == 210
INTENSITY_MAX == 245
AREA_SIZE == 100
STEP_SIZE == 50
IMAGE_WIDTH == 400
IMAGE_HEIGHT == 300

VARIABLES
    pc,          \* which operation runs and where it stands
    image,       \* find_cases: the local variable image
    x, y,        \* find_cases: the loop variables
    case_count,  \* find_cases: the local variable case_count
    input,       \* find_cases: the image it was called with
    red_area,    \* find_cases: the local variable red_area
    log,         \* find_cases: what scan_area saw and returned, per iteration
    result       \* the value or exception of the finished operation

vars == <<pc, image, x, y, case_count, input, red_area, log, result>>

-----------------------------------------------------------------------------
(* SimpleImage *)

RGB(r, g, b) == [red |-> r, green |-> g, blue |-> b]

Gray(v) == RGB(v, v, v)

RECURSIVE Sum(_)
Sum(s) == IF s = <<>> THEN 0 ELSE Head(s) + Sum(Tail(s))

\* first pixel coordinate of band i
RECURSIVE Start(_, _)
Start(ws, i) == IF i = 1 THEN 0 ELSE Start(ws, i - 1) + ws[i - 1]

\* the band that holds pixel coordinate c, searched from band i, which starts at s
RECURSIVE BandFrom(_, _, _, _)
BandFrom(ws, c, i, s) == IF c < s + ws[i] THEN i ELSE BandFrom(ws, c, i + 1, s + ws[i])

\* the band that holds pixel coordinate c
BandAt(ws, c) == BandFrom(ws, c, 1, 0)

Cells(img) == (1..Len(img.xs)) \X (1..Len(img.ys))

Width(img) == Sum(img.xs)

Height(img) == Sum(img.ys)

\* number of pixels of cell c
CellPixels(img, c) == img.xs[c[1]] * img.ys[c[2]]

\* an exception leaving a function, and a normal return
Raise(e) == [exc |-> e]

Return(v) == [val |-> v]

Raised(r) == "exc" \in DOMAIN r

-----------------------------------------------------------------------------
(* highlight_areas *)

\* a filter that takes the red channel for the average
highlight_pixel_red(pixel) ==
    LET average == pixel.red
    IN  IF INTENSITY_MIN <= average /\ average <= INTENSITY_MAX
        THEN RGB(0, 255, 0)
        ELSE Gray(average)

highlight_pixel(pixel) ==
    LET average == (pixel.red + pixel.green + pixel.blue) \div 3
    IN  IF INTENSITY_MIN <= average /\ average <= INTENSITY_MAX
        THEN RGB(0, 255, 0)
        ELSE Gray(average)

highlight_areas(img) ==
    [img EXCEPT !.px = [c \in Cells(img) |-> highlight_pixel(img.px[c])]]

-----------------------------------------------------------------------------
(* get_area *)

\* the bands of ws that make up the pixel range [n, n + size)
Cut(ws, n, size) == SubSeq(ws, BandAt(ws, n), BandAt(ws, n + size - 1))

get_area(img, n, m) ==
    IF n + AREA_SIZE > Width(img) \/ m + AREA_SIZE > Height(img)
    THEN Raise("out of bounds")       \* get_pixel rejects the coordinates
    ELSE LET bn == BandAt(img.xs, n) - 1
             bm == BandAt(img.ys, m) - 1
             xs == Cut(img.xs, n, AREA_SIZE)
             ys == Cut(img.ys, m, AREA_SIZE)
         IN  Return([xs |-> xs, ys |-> ys,
                     px |-> [c \in (1..Len(xs)) \X (1..Len(ys)) |->
                                img.px[<<c[1] + bn, c[2] + bm>>]]])

-----------------------------------------------------------------------------
(* get_green_agv *)

\* "for pixel in image" visits the rows in turn, and each row from left to right.
\* The running green_tot and green_highlights after the first i pixels of row j,
\* counted from the start of that row
RECURSIVE GreenRow(_, _, _)
GreenRow(img, j, i) ==
    IF i = 0 THEN [green_tot |-> 0, green_highlights |-> 0]
    ELSE LET c == <<i, j>>
             before == GreenRow(img, j, i - 1)
         IN  IF img.px[c].green # 255
             THEN [before EXCEPT !.green_tot = @ + img.px[c].green * CellPixels(img, c)]
             ELSE [before EXCEPT !.green_highlights = @ + CellPixels(img, c)]

\* the running green_tot and green_highlights after the first j rows
RECURSIVE GreenLoop(_, _)
GreenLoop(img, j) ==
    IF j = 0 THEN [green_tot |-> 0, green_highlights |-> 0]
    ELSE LET before == GreenLoop(img, j - 1)
             row == GreenRow(img, j, Len(img.xs))
         IN  [green_tot |-> before.green_tot + row.green_tot,
              green_highlights |-> before.green_highlights + row.green_highlights]

\* a get_green_agv that answers 0 when no pixel is left to average
get_green_agv_default(img) ==
    LET sums == GreenLoop(img, Len(img.ys))
        divisor == Width(img) * Height(img) - sums.green_highlights
    IN  IF divisor = 0 THEN Return(0)
        ELSE Return(sums.green_tot \div divisor)

get_green_agv(img) ==
    LET sums == GreenLoop(img, Len(img.ys))
        divisor == Width(img) * Height(img) - sums.green_highlights
    IN  IF divisor = 0 THEN Raise("ZeroDivisionError")
        ELSE Return(sums.green_tot \div divisor)

-----------------------------------------------------------------------------
(* scan_area *)

\* a chain whose first range includes its lower end
select_band_closed(image_green_avg) ==
    IF 80 <= image_green_avg /\ image_green_avg < 85 THEN <<108, 110>>
    ELSE IF 130 < image_green_avg /\ image_green_avg < 135 THEN <<140, 142>>
    ELSE IF 105 < image_green_avg /\ image_green_avg < 110 THEN <<186, 188>>
    ELSE <<10, 20>>

\* the if/elif chain on image_green_avg: <<sensitivity_min, sensitivity_max>>
select_band(image_green_avg) ==
    IF 80 < image_green_avg /\ image_green_avg < 85 THEN <<108, 110>>
    ELSE IF 130 < image_green_avg /\ image_green_avg < 135 THEN <<140, 142>>
    ELSE IF 105 < image_green_avg /\ image_green_avg < 110 THEN <<186, 188>>
    ELSE <<10, 20>>

\* pixel.y == 0 or pixel.y == AREA_SIZE - 1 or pixel.x == 0 or pixel.x == AREA_SIZE - 1,
\* for the pixels of cell c
OnRing(area, c) ==
    LET x0 == Start(area.xs, c[1])
        y0 == Start(area.ys, c[2])
        onecol == area.xs[c[1]] = 1
        onerow == area.ys[c[2]] = 1
    IN  \/ onerow /\ (y0 = 0 \/ y0 = AREA_SIZE - 1)
        \/ onecol /\ (x0 = 0 \/ x0 = AREA_SIZE - 1)

in_band(area_green_avg, band) == band[1] <= area_green_avg /\ area_green_avg <= band[2]

\* the pixels of the ring are set to red in area itself; highlight is dropped
draw_border(area) ==
    [area EXCEPT !.px = [c \in Cells(area) |->
                            IF OnRing(area, c) THEN RGB(255, 0, 0) ELSE area.px[c]]]

scan_area(area, img) ==
    LET area_green_avg == get_green_agv(area)
        image_green_avg == get_green_agv(img)
    IN  IF Raised(area_green_avg) THEN area_green_avg
        ELSE IF Raised(image_green_avg) THEN image_green_avg
        ELSE IF in_band(area_green_avg.val, select_band(image_green_avg.val))
             THEN Return(<<draw_border(area), 1>>)
             ELSE Return(<<area, 0>>)

-----------------------------------------------------------------------------
(* add_area *)

\* the k-th pair of "for x in range(AREA_SIZE): for y in range(AREA_SIZE)":
\* y runs fastest
NthOfArea(area, k) == <<((k - 1) \div Len(area.ys)) + 1, ((k - 1) % Len(area.ys)) + 1>>

\* new_image after the first k iterations of the second loop
RECURSIVE AddLoop(_, _, _, _, _)
AddLoop(img, area, n, m, k) ==
    IF k = 0 THEN img.px       \* the first loop copied image into new_image
    ELSE LET c == NthOfArea(area, k)
             ax == Start(area.xs, c[1])
             ay == Start(area.ys, c[2])
             here == <<BandAt(img.xs, ax), BandAt(img.ys, ay)>>
             there == <<BandAt(img.xs, ax + n), BandAt(img.ys, ay + m)>>
             before == AddLoop(img, area, n, m, k - 1)
             restored == [before EXCEPT ![here] = img.px[here]]
         IN  [restored EXCEPT ![there] = area.px[c]]

add_area(img, area, n, m) ==
    [img EXCEPT !.px = AddLoop(img, area, n, m, Cardinality(Cells(area)))]

-----------------------------------------------------------------------------
(* find_cases *)

\* a scan that stops a whole window before the right edge
xstop_whole(img) == Width(img) - AREA_SIZE

\* a scan that runs up to the right edge
xstop_edge(img) == Width(img)

xstop(img) == Width(img) - AREA_SIZE \div 2

ystop(img) == Height(img) - AREA_SIZE \div 2

NoArea == [xs |-> <<>>, ys |-> <<>>, px |-> <<>>]

\* one iteration of the inner loop, or the exception that ends the call
ScanWindow ==
    /\ pc = "find_cases"
    /\ x < xstop(image) /\ y < ystop(image)
    /\ LET scanned_area == get_area(image, x, y)
           scan_results == IF Raised(scanned_area) THEN scanned_area
                           ELSE scan_area(scanned_area.val, image)
       IN  IF Raised(scan_results)
           THEN /\ pc' = "raised"
                /\ result' = scan_results
                /\ UNCHANGED <<image, x, y, case_count, red_area, log>>
           ELSE /\ red_area' = scan_results.val[1]
                /\ case_count' = case_count + scan_results.val[2]
                /\ image' = add_area(image, scan_results.val[1], x, y)
                /\ log' = Append(log,
                       [n |-> x, m |-> y,
                        area_green_avg |-> get_green_agv(scanned_area.val).val,
                        image_green_avg |-> get_green_agv(image).val,
                        found |-> scan_results.val[2]])
                /\ IF y + STEP_SIZE < ystop(image)
                   THEN x' = x /\ y' = y + STEP_SIZE
                   ELSE x' = x + STEP_SIZE /\ y' = 0
                /\ UNCHANGED <<pc, result>>
    /\ UNCHANGED input

\* return image, case_count
ScanReturn ==
    /\ pc = "find_cases"
    /\ ~(x < xstop(image) /\ y < ystop(image))
    /\ pc' = "done"
    /\ result' = Return(<<image, case_count>>)
    /\ UNCHANGED <<image, x, y, case_count, input, red_area, log>>

\* the bands of the working frame: every STEP_SIZE pixels are cut into the
\* first pixel, the pixels between, and the last pixel
FrameBands(size) ==
    [i \in 1..(3 * (size \div STEP_SIZE)) |->
        IF i % 3 = 2 THEN STEP_SIZE - 2 ELSE 1]

\* a frame that is gray a left of column split and gray b from there on
RawFrame(a, b, split) ==
    LET xs == FrameBands(IMAGE_WIDTH)
        ys == FrameBands(IMAGE_HEIGHT)
    IN  [xs |-> xs, ys |-> ys,
         px |-> [c \in (1..Len(xs)) \X (1..Len(ys)) |->
                    IF Start(xs, c[1]) < split THEN Gray(a) ELSE Gray(b)]]

ScanGrays == {10, 15, 21, 55, 109, 220}

ScanSplits == {0, 200}

\* main: green_highlights = highlight_areas(cropped_image); find_cases(green_highlights)
InitScan ==
    /\ pc = "find_cases"
    /\ \E a \in ScanGrays, b \in ScanGrays, split \in ScanSplits :
          input = highlight_areas(RawFrame(a, b, split))
    /\ image = input
    /\ x = 0 /\ y = 0
    /\ case_count = 0
    /\ red_area = NoArea
    /\ log = <<>>
    /\ result = Return(<<>>)

NextScan == ScanWindow \/ ScanReturn

SpecScan == InitScan /\ [][NextScan]_vars

-----------------------------------------------------------------------------
(* Properties of find_cases *)

Last(q) == q[Len(q)]

\* Python's range(0, stop, STEP_SIZE)
Range(stop) == {v \in 0..(IF stop > 0 THEN stop - 1 ELSE -1) : v % STEP_SIZE = 0}

Offsets(q) == {<<q[i].n, q[i].m>> : i \in DOMAIN q}

AllFound(q) == \A i \in DOMAIN q : q[i].found = 1

Outcome(scan_results) ==
    IF Raised(scan_results) THEN scan_results.exc
    ELSE IF scan_results.val[2] = 1 THEN "case" ELSE "no case"

\* scan_area on the window at (n, m) of the image find_cases was called with
Alone(n, m) == scan_area(get_area(input, n, m).val, input)

\* C1: the case count is the number of scanned windows found to be in the band,
\* and each window is an independent trial: what scan_area finds for it is what
\* it finds for the same window of the input image, whatever was found before.
C1_IndependentTrials ==
    /\ case_count = Cardinality({i \in DOMAIN log : log[i].found = 1})
    /\ log # <<>> =>
          Outcome(Alone(Last(log).n, Last(log).m))
              = (IF Last(log).found = 1 THEN "case" ELSE "no case")

AllMarked(img) == \A c \in Cells(img) : img.px[c].green = 255

C6_FortyEight ==
    pc = "done" =>
        /\ Offsets(log) = Range(IMAGE_WIDTH) \X Range(IMAGE_HEIGHT)
        /\ Len(log) = 48
        /\ AllFound(log) => case_count = 48

\* C6 amended: find_cases scans exactly the 35 offsets x in {0,50,...,300},
\* y in {0,50,...,200}, each once, and returns 35 when every window is a case.
C6_ThirtyFive ==
    pc = "done" =>
        /\ Offsets(log) = Range(IMAGE_WIDTH - STEP_SIZE) \X Range(IMAGE_HEIGHT - STEP_SIZE)
        /\ Len(log) = 35
        /\ AllFound(log) => case_count = 35

C6_Witness == pc = "done" /\ AllFound(log) /\ case_count = 35

\* C8: the whole-image average scan_area computes is, at every window, the one
\* of the image find_cases was called with, and so is the band chosen from it.
C8_StableBaseline ==
    log # <<>> =>
        /\ Last(log).image_green_avg = get_green_agv(input).val
        /\ select_band(Last(log).image_green_avg) = select_band(get_green_agv(input).val)

\* the cell of img that holds the pixels of cell c of an area placed at (n, m)
Placed(img, area, n, m, c) ==
    <<BandAt(img.xs, Start(area.xs, c[1]) + n), BandAt(img.ys, Start(area.ys, c[2]) + m)>>

\* C9: a merge puts the region scan_area returned into the window at the
\* offset and leaves every pixel outside the window as it was; so the ring of
\* a window found to be a case is red in the composite right after the merge.
C9_MergeFrame ==
    [][log' # log =>
        LET window == {Placed(image, red_area', x, y, c) : c \in Cells(red_area')}
        IN  /\ \A c \in Cells(red_area') :
                  image'.px[Placed(image, red_area', x, y, c)] = red_area'.px[c]
            /\ \A d \in Cells(image) \ window : image'.px[d] = image.px[d]
            /\ Last(log').found = 1 =>
                  \A c \in Cells(red_area') :
                      OnRing(red_area', c) =>
                          image'.px[Placed(image, red_area', x, y, c)] = RGB(255, 0, 0)]_vars

\* C10: every offset find_cases passes to get_area has its whole window inside
\* the image, so get_area never reads outside it.
C10_WindowsInBounds ==
    /\ pc = "find_cases" /\ x < xstop(image) /\ y < ystop(image) =>
          x + AREA_SIZE <= Width(image) /\ y + AREA_SIZE <= Height(image)
    /\ result # Raise("out of bounds")

C10_Witness ==
    /\ pc = "find_cases"
    /\ x + AREA_SIZE = Width(image) /\ y + AREA_SIZE = Height(image)

-----------------------------------------------------------------------------
(* The threshold chain of scan_area on its own *)

MaxAvg == 255

InitBand ==
    /\ pc = "select_band"
    /\ input \in 0..MaxAvg
    /\ image = NoArea /\ red_area = NoArea
    /\ x = 0 /\ y = 0 /\ case_count = 0
    /\ log = <<>>
    /\ result = Return(<<>>)

SelectBand ==
    /\ pc = "select_band"
    /\ pc' = "done"
    /\ result' = Return(select_band(input))
    /\ UNCHANGED <<image, x, y, case_count, input, red_area, log>>

NextBand == SelectBand

SpecBand == InitBand /\ [][NextBand]_vars

\* C7: every whole-image average gets exactly one band: 81..84 gets (108,110),
\* 131..134 gets (140,142), 106..109 gets (186,188), and every other value,
\* 80, 85, 130, 135, 105 and 110 among them, gets (10,20).
C7_BandTable ==
    pc = "done" =>
        result = Return(IF input \in 81..84 THEN <<108, 110>>
                        ELSE IF input \in 131..134 THEN <<140, 142>>
                        ELSE IF input \in 106..109 THEN <<186, 188>>
                        ELSE <<10, 20>>)

C7_Witness ==
    /\ pc = "done"
    /\ input \in {80, 85, 130, 135, 105, 110}
    /\ result = Return(<<10, 20>>)

-----------------------------------------------------------------------------
(* highlight_areas applied to its own result *)

ClassifyMaxWidth == 3

ClassifyPalette ==
    {RGB(0, 255, 0), RGB(211, 210, 209), RGB(246, 245, 245), RGB(200, 210, 219)}

\* the images of w x h single pixels with values from palette
PixelImages(w, h, palette) ==
    LET xs == [i \in 1..w |-> 1]
        ys == [j \in 1..h |-> 1]
    IN  {[xs |-> xs, ys |-> ys, px |-> f] : f \in [(1..w) \X (1..h) -> palette]}

InitClassify ==
    /\ pc = "highlight_areas"
    /\ \E w \in 1..ClassifyMaxWidth : input \in PixelImages(w, 1, ClassifyPalette)
    /\ image = input
    /\ red_area = NoArea
    /\ x = 0 /\ y = 0 /\ case_count = 0
    /\ log = <<>>
    /\ result = Return(<<>>)

\* image = highlight_areas(image); log keeps what each call returned
Classify ==
    /\ pc = "highlight_areas"
    /\ image' = highlight_areas(image)
    /\ log' = Append(log, highlight_areas(image))
    /\ pc' = IF Len(log) = 1 THEN "done" ELSE pc
    /\ result' = Return(highlight_areas(image))
    /\ UNCHANGED <<x, y, case_count, input, red_area>>

NextClassify == Classify

SpecClassify == InitClassify /\ [][NextClassify]_vars

\* C2 as stated: highlight_areas applied to its result changes no pixel.
C2_Idempotent == Len(log) = 2 => log[2] = log[1]

\* C2 amended: highlight_areas applied to its result leaves every pixel it had
\* not marked unchanged, and so unmarked, and turns every pixel it had marked
\* (0,255,0) into the gray (85,85,85).
C2_SecondPass ==
    Len(log) = 2 =>
        \A c \in Cells(input) :
            IF log[1].px[c] = RGB(0, 255, 0)
            THEN log[2].px[c] = Gray(85)
            ELSE log[2].px[c] = log[1].px[c]

C2_Witness ==
    /\ Len(log) = 2
    /\ \E c \in Cells(input) : log[1].px[c] = RGB(0, 255, 0) /\ input.px[c] # RGB(0, 255, 0)
    /\ \E c \in Cells(input) : log[1].px[c] # RGB(0, 255, 0)

-----------------------------------------------------------------------------
(* locate_cases *)

IsRed(pixel) == pixel.red = 255 /\ pixel.green = 0 /\ pixel.blue = 0

\* the pixel columns of column band i
Columns(img, i) == Start(img.xs, i)..(Start(img.xs, i) + img.xs[i] - 1)

\* the pixel.x of the pixels that are pure red
RedColumns(img) ==
    {px \in 0..(Width(img) - 1) :
        \E c \in Cells(img) : px \in Columns(img, c[1]) /\ IsRed(img.px[c])}

\* a locate_cases whose left side takes the middle column in
locate_cases_middle(img) ==
    LET left == {px \in RedColumns(img) : px <= Width(img) \div 2}
        right == {px \in RedColumns(img) : px > Width(img) \div 2}
        tot_cases == IF left # {} THEN <<"left">> ELSE <<>>
    IN  IF right # {} THEN Append(tot_cases, "right") ELSE tot_cases

locate_cases(img) ==
    LET left == {px \in RedColumns(img) : px < Width(img) \div 2}
        right == {px \in RedColumns(img) : px > Width(img) \div 2}
        tot_cases == IF left # {} THEN <<"left">> ELSE <<>>
    IN  IF right # {} THEN Append(tot_cases, "right") ELSE tot_cases

LocateMaxWidth == 4

LocateMaxHeight == 1

LocatePalette == {RGB(255, 0, 0), RGB(255, 0, 1), Gray(0)}

InitLocate ==
    /\ pc = "locate_cases"
    /\ \E w \in 1..LocateMaxWidth, h \in 1..LocateMaxHeight :
          input \in PixelImages(w, h, LocatePalette)
    /\ image = input
    /\ red_area = NoArea
    /\ x = 0 /\ y = 0 /\ case_count = 0
    /\ log = <<>>
    /\ result = Return(<<>>)

Locate ==
    /\ pc = "locate_cases"
    /\ pc' = "done"
    /\ result' = Return(locate_cases(image))
    /\ UNCHANGED <<image, x, y, case_count, input, red_area, log>>

NextLocate == Locate

SpecLocate == InitLocate /\ [][NextLocate]_vars

\* the columns that hold a pure red pixel
RedAt(img) == {px \in 0..(Width(img) - 1) :
                 \E c \in Cells(img) : px \in Columns(img, c[1]) /\ IsRed(img.px[c])}

Sides(hasleft, hasright) ==
    (IF hasleft THEN <<"left">> ELSE <<>>) \o (IF hasright THEN <<"right">> ELSE <<>>)

\* C4 as stated: "left" is reported exactly when a pure red pixel has x < width/2,
\* "right" exactly when one has x > width/2, for even and odd widths alike.
C4_HalfWidth ==
    pc = "done" =>
        result = Return(Sides(\E px \in RedAt(input) : 2 * px < Width(input),
                              \E px \in RedAt(input) : 2 * px > Width(input)))

\* C4 amended: "left" is reported exactly when a pure red pixel has
\* x < floor(width/2), "right" exactly when one has x > floor(width/2); a red
\* pixel in column floor(width/2) counts for neither side; "left" comes before
\* "right" and no red pixel gives the empty list.
C4_FloorHalfWidth ==
    pc = "done" =>
        /\ result = Return(Sides(\E px \in RedAt(input) : px < Width(input) \div 2,
                                 \E px \in RedAt(input) : px > Width(input) \div 2))
        /\ RedAt(input) = {} => result = Return(<<>>)
        /\ RedAt(input) = {Width(input) \div 2} => result = Return(<<>>)

C4_Witness ==
    /\ pc = "done"
    /\ Width(input) % 2 = 1
    /\ RedAt(input) = {Width(input) \div 2}
    /\ result = Return(<<>>)

-----------------------------------------------------------------------------
(* remove_green *)

\* new_image = SimpleImage(filename), then every pixel of image whose red is 255
\* is set in new_image, moved by half the difference in size.  No two pixels of
\* image go to the same place, so each pixel of new_image is its own or the one
\* pixel of image that lands on it.
remove_green(img, original) ==
    LET dx == (Width(original) - IMAGE_WIDTH) \div 2
        dy == (Height(original) - IMAGE_HEIGHT) \div 2
        from(c) == <<Start(original.xs, c[1]) - dx, Start(original.ys, c[2]) - dy>>
        covered(c) == /\ from(c)[1] >= 0 /\ from(c)[1] < Width(img)
                      /\ from(c)[2] >= 0 /\ from(c)[2] < Height(img)
        source(c) == <<BandAt(img.xs, from(c)[1]), BandAt(img.ys, from(c)[2])>>
    IN  [original EXCEPT !.px =
            [c \in Cells(original) |->
                IF covered(c) /\ img.px[source(c)].red = 255
                THEN img.px[source(c)]
                ELSE original.px[c]]]

\* a frame of the working size in two halves of one pixel value each
Halves(a, b) ==
    LET xs == FrameBands(IMAGE_WIDTH)
        ys == FrameBands(IMAGE_HEIGHT)
    IN  [xs |-> xs, ys |-> ys,
         px |-> [c \in (1..Len(xs)) \X (1..Len(ys)) |->
                    IF Start(xs, c[1]) < IMAGE_WIDTH \div 2 THEN a ELSE b]]

\* the bands of a side of the original: the margin cut off before the frame,
\* the bands of the frame, the margin cut off after it
AroundFrame(size, extra) ==
    LET before == extra \div 2
        after == extra - before
    IN  (IF before > 0 THEN <<before>> ELSE <<>>) \o FrameBands(size)
            \o (IF after > 0 THEN <<after>> ELSE <<>>)

\* an original that is wider and higher than the frame by the given pixels,
\* of pixel value a in its even column bands and b in its odd ones
Original(wider, higher, a, b) ==
    LET xs == AroundFrame(IMAGE_WIDTH, wider)
        ys == AroundFrame(IMAGE_HEIGHT, higher)
    IN  [xs |-> xs, ys |-> ys,
         px |-> [c \in (1..Len(xs)) \X (1..Len(ys)) |-> IF c[1] % 2 = 0 THEN a ELSE b]]

RemapMaxExtra == 2

DetectedPalette == {RGB(255, 0, 0), RGB(0, 255, 0), Gray(255), Gray(15)}

OriginalPalette == {Gray(15), RGB(30, 20, 10)}

InitRemap ==
    /\ pc = "remove_green"
    /\ \E a \in DetectedPalette, b \in DetectedPalette : image = Halves(a, b)
    /\ \E wider \in 0..RemapMaxExtra, higher \in 0..RemapMaxExtra :
          \E a \in OriginalPalette, b \in OriginalPalette :
              input = Original(wider, higher, a, b)
    /\ red_area = NoArea
    /\ x = 0 /\ y = 0 /\ case_count = 0
    /\ log = <<>>
    /\ result = Return(<<>>)

Remap ==
    /\ pc = "remove_green"
    /\ pc' = "done"
    /\ result' = Return(remove_green(image, input))
    /\ UNCHANGED <<image, x, y, case_count, input, red_area, log>>

NextRemap == Remap

SpecRemap == InitRemap /\ [][NextRemap]_vars

\* C3: the image remove_green returns has (255,0,0) where a pure red pixel of
\* the detected image lands, moved by ((W-400)//2, (H-300)//2), and the pixel
\* of the original everywhere else; without pure red pixels it is the original.
C3_OnlyPureRed ==
    pc = "done" =>
        LET dx == (Width(input) - IMAGE_WIDTH) \div 2
            dy == (Height(input) - IMAGE_HEIGHT) \div 2
            landing == {<<Placed(input, image, dx, dy, d), d>> : d \in Cells(image)}
        IN  /\ \A l \in landing :
                  result.val.px[l[1]] =
                      IF IsRed(image.px[l[2]]) THEN RGB(255, 0, 0) ELSE input.px[l[1]]
            /\ \A c \in Cells(input) \ {l[1] : l \in landing} :
                  result.val.px[c] = input.px[c]
            /\ (\A d \in Cells(image) : ~IsRed(image.px[d])) => result.val = input

====
